---- MODULE Spec2Model ----
(***************************************************************************)
(* MemoryPersistence (pip-services-data-go): the in-memory record store,   *)
(* its reader/writer lock and its Open / Close / Save / Clear lifecycle    *)
(* against a Loader and a Saver that read and write one external medium.   *)
(*                                                                         *)
(* Every method is split at the points where another goroutine can         *)
(* interleave: lock acquisition, the Saver call, and Close's unlocked      *)
(* write of the open flag.                                                 *)
(***************************************************************************)
EXTENDS Integers, Sequences, FiniteSets, TLC

(* ------------------------------ bounds --------------------------------- *)
NumThreads == 2
MaxLen == 2
MaxStack == 2    \* nested activations the stack has room for

Threads == 1..NumThreads

(* ------------------------------ data ----------------------------------- *)
\* The record types a store can be constructed with; NilType is Go's nil
\* reflect.Type, the zero value of the _prototype field.
Prototypes == {"Dummy"}
NilType == "nil"

\* The typed record with id i, as the store holds it in _items.
Record(i) == [type |-> "Dummy", id |-> i, key |-> i % 2]

\* A nil interface{} element, as left by make([]interface{}, n).
NilItem == [type |-> NilType, id |-> 0, key |-> 0]

\* Collections a child struct may have put into _items: records with
\* distinct ids, in an order that a reordering or a truncation would change.
Collections == {[i \in 1..k |-> Record(i)] : k \in 0..MaxLen}

\* What the Saver writes for one record: the generic (JSON) object holding
\* the record's fields.
ToGeneric(r) == [id |-> r.id, key |-> r.key, extra |-> 0, fail |-> "none"]

ToGenericAll(s) == [i \in 1..Len(s) |-> ToGeneric(s[i])]

\* A generic item as a medium may hold it before the store has written it:
\* an object with a field the record type does not have.  fail tells which
\* stage of load's conversion the item fails: "marshal" is a value
\* json.Marshal rejects, "unmarshal" is a key of a type the record's field
\* cannot take, "none" is an item that converts.
BadItem(i, f) == [id |-> i, key |-> i % 2, extra |-> 1, fail |-> f]

RawItem(i) == BadItem(i, "none")

NoFile == [present |-> FALSE, data |-> <<>>]

\* The medium before the first Save: absent, or holding a sequence of items.
Media == {NoFile} \cup {[present |-> TRUE, data |-> [i \in 1..k |-> RawItem(i)]] : k \in 0..MaxLen}

\* Media holding items that do not convert.
BadMedia ==
    {[present |-> TRUE, data |-> [i \in 1..k |-> BadItem(i, f[i])]] :
        k \in 1..MaxLen, f \in [1..MaxLen -> {"none", "marshal", "unmarshal"}]}

\* ToNullableMap + json.Marshal + json.Unmarshal into a new value of the
\* prototype: the fields of the record type are kept, zero when missing,
\* and any other field is dropped.  The error of json.Unmarshal is not
\* looked at: the field it could not set keeps its zero value.
Materialize(v, proto) ==
    [type |-> proto, id |-> v.id, key |-> IF v.fail = "unmarshal" THEN 0 ELSE v.key]

MaterializeAll(s, proto) == [i \in 1..Len(s) |-> Materialize(s[i], proto)]

\* The index of the item at which load's loop panics, 0 if it does not:
\* json.Marshal's error is turned into a panic, and reflect.New panics on a
\* nil _prototype.
PanicIndex(data, proto) ==
    IF Len(data) > 0 /\ proto = NilType
    THEN 1
    ELSE IF \E i \in 1..Len(data) : data[i].fail = "marshal"
         THEN CHOOSE i \in 1..Len(data) :
                 /\ data[i].fail = "marshal"
                 /\ \A j \in 1..(i - 1) : data[j].fail # "marshal"
         ELSE 0

\* _items when the loop panics at index p: the items before p are converted,
\* the others are the nil elements of the new slice.
Interrupted(data, proto, p) ==
    [i \in 1..Len(data) |-> IF i < p THEN Materialize(data[i], proto) ELSE NilItem]

NoSave == [any |-> FALSE, data |-> <<>>]

(* ------------------------------ state ---------------------------------- *)
VARIABLES
    prototype,   \* _prototype
    loader,      \* _loader # nil
    saver,       \* _saver # nil
    items,       \* _items
    opened,      \* _opened
    wowner,      \* _lockMutex: the goroutine holding or about to hold it exclusively, 0 if none
    readers,     \* _lockMutex: the goroutines holding it shared
    medium,      \* the external medium the Loader reads and the Saver writes
    op,          \* per goroutine: the method it called
    pc,          \* per goroutine: its position in that method
    err,         \* per goroutine: the local err
    arg,         \* per goroutine: the slice handed to Saver.Save
    ret,         \* per goroutine: the value the call returned
    got,         \* history: what load got from the Loader
    recordType,  \* history: the prototype argument of the constructor
    ncalls,      \* history: calls started on this instance (0, 1, more)
    hist,        \* history: last completed Open success / Close
    lastSaved,   \* history: the collection of the last successful Saver.Save
    kind,        \* what the constructor produced: a store of some kind, nil, or a panic
    persisterPath, \* FilePersistence._persister: the path it is configured with
    ioPath,      \* the path of the persister object passed as loader and saver
    cfgPath,     \* history: the path of the last Configure call, "none" before
    depth        \* activations of IdentifiableFilePersistence.Configure on the stack

store == <<prototype, loader, saver, items, opened, wowner, readers>>
thread == <<op, pc, err, arg, ret>>
history == <<got, recordType, ncalls, hist, lastSaved>>
file == <<kind, persisterPath, ioPath, cfgPath, depth>>
vars == <<store, medium, thread, history, file>>

\* The process is gone: a goroutine panicked in load, a constructor panicked,
\* or the stack overflowed.
crashed == (\E t \in Threads : pc[t] = "panicked") \/ kind \in {"panic", "fatal"}

(* --------------------------- construction ------------------------------ *)
Fresh(proto, ld, sv, rt, coll, n) ==
    /\ prototype' = proto
    /\ loader' = ld
    /\ saver' = sv
    /\ items' = coll
    /\ opened' = FALSE
    /\ wowner' = 0
    /\ readers' = {}
    /\ op' = [t \in Threads |-> "none"]
    /\ pc' = [t \in Threads |-> "idle"]
    /\ err' = [t \in Threads |-> "nil"]
    /\ arg' = [t \in Threads |-> <<>>]
    /\ ret' = [t \in Threads |-> "none"]
    /\ got' = [t \in Threads |-> "none"]
    /\ recordType' = rt
    /\ ncalls' = n
    /\ hist' = "new"

\* A constructor runs when the process (re)starts: no call is in progress.
Restartable ==
    /\ \A t \in Threads : pc[t] \in {"idle", "panicked"}
    /\ depth = 0 \/ kind = "fatal"

\* A store without a persister.
NoPersister(k) ==
    /\ kind' = k
    /\ persisterPath' = ""
    /\ ioPath' = ""
    /\ cfgPath' = "none"
    /\ depth' = 0

\* NewEmptyMemoryPersistence(prototype): nil for a nil prototype, else a new
\* instance; the medium outlives the process.
NewEmptyMemoryPersistence(proto) ==
    /\ Restartable
    /\ IF proto = NilType
       THEN Fresh(NilType, FALSE, FALSE, NilType, <<>>, 0) /\ NoPersister("nil")
       ELSE Fresh(proto, FALSE, FALSE, proto, <<>>, 0) /\ NoPersister("memory")
    /\ UNCHANGED <<medium, lastSaved>>

\* NewMemoryPersistence(prototype, loader, saver): nil for a nil prototype;
\* else a new instance, whose _prototype is not assigned.
NewMemoryPersistence(proto, ld, sv) ==
    /\ Restartable
    /\ IF proto = NilType
       THEN Fresh(NilType, FALSE, FALSE, NilType, <<>>, 0) /\ NoPersister("nil")
       ELSE Fresh(NilType, ld, sv, proto, <<>>, 0) /\ NoPersister("memory")
    /\ UNCHANGED <<medium, lastSaved>>

\* A store built by either constructor, whose _items a child struct has
\* filled (the struct is an abstract base: CRUD lives in child structs that
\* access _items), over a medium with any content.
Init ==
    /\ medium \in Media
    /\ lastSaved = NoSave
    /\ recordType \in Prototypes
    /\ \/ prototype = recordType /\ loader = FALSE /\ saver = FALSE
       \/ prototype = NilType /\ loader \in BOOLEAN /\ saver \in BOOLEAN
    /\ items \in Collections
    /\ opened = FALSE
    /\ wowner = 0
    /\ readers = {}
    /\ op = [t \in Threads |-> "none"]
    /\ pc = [t \in Threads |-> "idle"]
    /\ err = [t \in Threads |-> "nil"]
    /\ arg = [t \in Threads |-> <<>>]
    /\ ret = [t \in Threads |-> "none"]
    /\ got = [t \in Threads |-> "none"]
    /\ ncalls = 2
    /\ hist = "new"
    /\ kind = "memory"
    /\ persisterPath = ""
    /\ ioPath = ""
    /\ cfgPath = "none"
    /\ depth = 0

(* ------------------------------ calls ---------------------------------- *)
Enter(t, o, first) ==
    /\ ~crashed
    /\ UNCHANGED file
    /\ kind # "nil"
    /\ pc[t] = "idle"
    /\ op' = [op EXCEPT ![t] = o]
    /\ pc' = [pc EXCEPT ![t] = first]
    /\ err' = [err EXCEPT ![t] = "nil"]
    /\ ret' = [ret EXCEPT ![t] = "none"]
    /\ got' = [got EXCEPT ![t] = "none"]
    /\ ncalls' = IF ncalls < 2 THEN ncalls + 1 ELSE ncalls
    /\ UNCHANGED <<store, medium, arg, recordType, hist, lastSaved>>

\* A goroutine calls Open, Save, Close (whose first statement is the call of
\* Save) or Clear.
OpenCall(t) == Enter(t, "Open", "lock")

SaveCall(t) == Enter(t, "Save", "rlock")

CloseCall(t) == Enter(t, "Close", "rlock")

ClearCall(t) == Enter(t, "Clear", "lock")

(* ------------------------- sync.RWMutex -------------------------------- *)
\* Lock, first half: the writer takes the inner mutex; from here on it is
\* pending and new readers are held back.
Lock(t) ==
    /\ ~crashed
    /\ UNCHANGED file
    /\ pc[t] = "lock"
    /\ wowner = 0
    /\ wowner' = t
    /\ pc' = [pc EXCEPT ![t] = "lockwait"]
    /\ UNCHANGED <<prototype, loader, saver, items, opened, readers>>
    /\ UNCHANGED <<medium, op, err, arg, ret, history>>

\* Lock as it would be if the writer did not wait for the active readers.
LockGranted_IgnoreReaders(t) ==
    /\ ~crashed
    /\ UNCHANGED file
    /\ pc[t] = "lockwait"
    /\ pc' = [pc EXCEPT ![t] = IF op[t] = "Open" THEN "load" ELSE "clear"]
    /\ UNCHANGED <<store, medium, op, err, arg, ret, history>>

\* Lock, second half: the writer proceeds once the active readers have left.
LockGranted(t) ==
    /\ ~crashed
    /\ UNCHANGED file
    /\ pc[t] = "lockwait"
    /\ readers = {}
    /\ pc' = [pc EXCEPT ![t] = IF op[t] = "Open" THEN "load" ELSE "clear"]
    /\ UNCHANGED <<store, medium, op, err, arg, ret, history>>

(* ------------------------------ Open ----------------------------------- *)
\* What Loader.Load can return: an error, neither items nor an error (no
\* medium), or the whole content of the medium.
LoaderOutcomes == IF medium.present THEN {"error", "items"} ELSE {"error", "nothing"}

\* load as it would be if the collection were replaced before the Loader's
\* error is looked at.
load_ReplaceOnError(t) ==
    /\ ~crashed
    /\ UNCHANGED file
    /\ pc[t] = "load"
    /\ \E o \in (IF loader THEN LoaderOutcomes ELSE {"noloader"}) :
          /\ got' = [got EXCEPT ![t] = o]
          /\ items' = IF o \in {"items", "error"} THEN <<>> ELSE items
          /\ err' = [err EXCEPT ![t] = IF o = "error" THEN "error" ELSE "nil"]
          /\ pc' = [pc EXCEPT ![t] = "opened"]
          /\ UNCHANGED <<ret, wowner>>
    /\ UNCHANGED <<prototype, loader, saver, opened, readers>>
    /\ UNCHANGED <<medium, op, arg, recordType, ncalls, hist, lastSaved>>

\* load as it would be without the items != nil test: a Loader returning
\* nothing empties the collection.
load_ReplaceOnNothing(t) ==
    /\ ~crashed
    /\ UNCHANGED file
    /\ pc[t] = "load"
    /\ \E o \in (IF loader THEN LoaderOutcomes ELSE {"noloader"}) :
          /\ got' = [got EXCEPT ![t] = o]
          /\ items' = IF o \in {"items", "nothing"} THEN <<>> ELSE items
          /\ err' = [err EXCEPT ![t] = IF o = "error" THEN "error" ELSE "nil"]
          /\ pc' = [pc EXCEPT ![t] = "opened"]
          /\ UNCHANGED <<ret, wowner>>
    /\ UNCHANGED <<prototype, loader, saver, opened, readers>>
    /\ UNCHANGED <<medium, op, arg, recordType, ncalls, hist, lastSaved>>

\* load, under the exclusive lock.  With items to convert and a nil
\* _prototype, reflect.New panics on the first item, after _items has been
\* replaced by a slice of nil elements; an item json.Marshal rejects panics
\* too; the deferred Unlock runs.
load(t) ==
    /\ ~crashed
    /\ UNCHANGED file
    /\ pc[t] = "load"
    /\ \E o \in (IF loader THEN LoaderOutcomes ELSE {"noloader"}) :
          /\ got' = [got EXCEPT ![t] = o]
          /\ IF o = "items" /\ PanicIndex(medium.data, prototype) > 0
             THEN /\ items' = Interrupted(medium.data, prototype,
                                          PanicIndex(medium.data, prototype))
                  /\ pc' = [pc EXCEPT ![t] = "panicked"]
                  /\ ret' = [ret EXCEPT ![t] = "panic"]
                  /\ wowner' = 0
                  /\ err' = err
             ELSE /\ items' = IF o = "items"
                              THEN MaterializeAll(medium.data, prototype)
                              ELSE items
                  /\ err' = [err EXCEPT ![t] = IF o = "error" THEN "error" ELSE "nil"]
                  /\ pc' = [pc EXCEPT ![t] = "opened"]
                  /\ UNCHANGED <<ret, wowner>>
    /\ UNCHANGED <<prototype, loader, saver, opened, readers>>
    /\ UNCHANGED <<medium, op, arg, recordType, ncalls, hist, lastSaved>>

\* Open as it would be without the deferred Unlock.
Open_NoUnlock(t) ==
    /\ ~crashed
    /\ UNCHANGED file
    /\ pc[t] = "opened"
    /\ opened' = IF err[t] = "nil" THEN TRUE ELSE opened
    /\ hist' = IF got[t] # "error" THEN "open" ELSE hist
    /\ ret' = [ret EXCEPT ![t] = err[t]]
    /\ wowner' = wowner
    /\ pc' = [pc EXCEPT ![t] = "idle"]
    /\ UNCHANGED <<prototype, loader, saver, items, readers>>
    /\ UNCHANGED <<medium, op, err, arg, got, recordType, ncalls, lastSaved>>

\* Open as it would be if it marked the store open whatever load returned.
Open_AlwaysOpened(t) ==
    /\ ~crashed
    /\ UNCHANGED file
    /\ pc[t] = "opened"
    /\ opened' = TRUE
    /\ hist' = IF got[t] # "error" THEN "open" ELSE hist
    /\ ret' = [ret EXCEPT ![t] = err[t]]
    /\ wowner' = 0
    /\ pc' = [pc EXCEPT ![t] = "idle"]
    /\ UNCHANGED <<prototype, loader, saver, items, readers>>
    /\ UNCHANGED <<medium, op, err, arg, got, recordType, ncalls, lastSaved>>

\* Open after load: mark the store open when load returned no error, return
\* err, and the deferred Unlock.
Open(t) ==
    /\ ~crashed
    /\ UNCHANGED file
    /\ pc[t] = "opened"
    /\ opened' = IF err[t] = "nil" THEN TRUE ELSE opened
    /\ hist' = IF got[t] # "error" THEN "open" ELSE hist
    /\ ret' = [ret EXCEPT ![t] = err[t]]
    /\ wowner' = 0
    /\ pc' = [pc EXCEPT ![t] = "idle"]
    /\ UNCHANGED <<prototype, loader, saver, items, readers>>
    /\ UNCHANGED <<medium, op, err, arg, got, recordType, ncalls, lastSaved>>

(* ------------------------------ Save ----------------------------------- *)
\* Save's return as it would be without the deferred RUnlock.
SaveReturn_NoRUnlock(t, e) ==
    /\ readers' = readers
    /\ err' = [err EXCEPT ![t] = e]
    /\ arg' = [arg EXCEPT ![t] = <<>>]
    /\ IF op[t] = "Close"
       THEN /\ pc' = [pc EXCEPT ![t] = "close"]
            /\ UNCHANGED <<ret, wowner>>
       ELSE /\ pc' = [pc EXCEPT ![t] = "idle"]
            /\ ret' = [ret EXCEPT ![t] = e]
            /\ wowner' = IF op[t] = "Clear" THEN 0 ELSE wowner
    /\ UNCHANGED <<prototype, loader, saver, items, opened>>
    /\ UNCHANGED <<op, got, recordType, ncalls, hist>>

\* Save's return as it would be if a failed save dropped the collection and
\* closed the store.
SaveReturn_ResetOnError(t, e) ==
    /\ readers' = readers \ {t}
    /\ err' = [err EXCEPT ![t] = e]
    /\ arg' = [arg EXCEPT ![t] = <<>>]
    /\ IF op[t] = "Close"
       THEN /\ pc' = [pc EXCEPT ![t] = "close"]
            /\ UNCHANGED <<ret, wowner>>
       ELSE /\ pc' = [pc EXCEPT ![t] = "idle"]
            /\ ret' = [ret EXCEPT ![t] = e]
            /\ wowner' = IF op[t] = "Clear" THEN 0 ELSE wowner
    /\ items' = IF e = "error" THEN <<>> ELSE items
    /\ opened' = IF e = "error" THEN FALSE ELSE opened
    /\ UNCHANGED <<prototype, loader, saver>>
    /\ UNCHANGED <<op, got, recordType, ncalls, hist>>

\* Save returns e to its caller, with the deferred RUnlock: to the caller of
\* Save, into Close before its write of _opened, or into Clear, which
\* returns it and runs its own deferred Unlock.
SaveReturn(t, e) ==
    /\ readers' = readers \ {t}
    /\ err' = [err EXCEPT ![t] = e]
    /\ arg' = [arg EXCEPT ![t] = <<>>]
    /\ IF op[t] = "Close"
       THEN /\ pc' = [pc EXCEPT ![t] = "close"]
            /\ UNCHANGED <<ret, wowner>>
       ELSE /\ pc' = [pc EXCEPT ![t] = "idle"]
            /\ ret' = [ret EXCEPT ![t] = e]
            /\ wowner' = IF op[t] = "Clear" THEN 0 ELSE wowner
    /\ UNCHANGED <<prototype, loader, saver, items, opened>>
    /\ UNCHANGED <<op, got, recordType, ncalls, hist>>

\* Save as it would be if a missing saver were reported as a failure.
Save_NoSaverFails(t) ==
    /\ ~crashed
    /\ UNCHANGED file
    /\ pc[t] = "rlock"
    /\ wowner = 0
    /\ IF ~saver
       THEN SaveReturn(t, "error") /\ UNCHANGED <<medium, lastSaved>>
       ELSE /\ readers' = readers \cup {t}
            /\ arg' = [arg EXCEPT ![t] = items]
            /\ pc' = [pc EXCEPT ![t] = "insaver"]
            /\ UNCHANGED <<prototype, loader, saver, items, opened, wowner>>
            /\ UNCHANGED <<medium, op, err, ret, history>>

\* Save as it would be if RLock let a reader in past a writer.
Save_IgnoreWriter(t) ==
    /\ ~crashed
    /\ UNCHANGED file
    /\ pc[t] = "rlock"
    /\ IF ~saver
       THEN SaveReturn(t, "nil") /\ UNCHANGED <<medium, lastSaved>>
       ELSE /\ readers' = readers \cup {t}
            /\ arg' = [arg EXCEPT ![t] = items]
            /\ pc' = [pc EXCEPT ![t] = "insaver"]
            /\ UNCHANGED <<prototype, loader, saver, items, opened, wowner>>
            /\ UNCHANGED <<medium, op, err, ret, history>>

\* Save up to the Saver call.  RLock lets the reader in unless a writer holds
\* the lock or is pending; the lock is not reentrant, so the caller's own
\* exclusive hold keeps it out too.  Without a saver Save returns nil (and
\* the deferred RUnlock runs) at once, else it hands the collection to
\* Saver.Save.
Save(t) ==
    /\ ~crashed
    /\ UNCHANGED file
    /\ pc[t] = "rlock"
    /\ wowner = 0
    /\ IF ~saver
       THEN SaveReturn(t, "nil") /\ UNCHANGED <<medium, lastSaved>>
       ELSE /\ readers' = readers \cup {t}
            /\ arg' = [arg EXCEPT ![t] = items]
            /\ pc' = [pc EXCEPT ![t] = "insaver"]
            /\ UNCHANGED <<prototype, loader, saver, items, opened, wowner>>
            /\ UNCHANGED <<medium, op, err, ret, history>>

\* Saver.Save returns: on success the medium holds the sequence it was
\* given, on error the medium is as before.  Save returns that result.
SaverSave(t) ==
    /\ ~crashed
    /\ UNCHANGED file
    /\ pc[t] = "insaver"
    /\ \E e \in {"nil", "error"} :
          /\ medium' = IF e = "nil"
                       THEN [present |-> TRUE, data |-> ToGenericAll(arg[t])]
                       ELSE medium
          /\ lastSaved' = IF e = "nil" THEN [any |-> TRUE, data |-> arg[t]] ELSE lastSaved
          /\ SaveReturn(t, e)

(* ------------------------------ Close ---------------------------------- *)
\* Close as it would be if a failed Save left the store open.
Close_KeepOpenOnError(t) ==
    /\ ~crashed
    /\ UNCHANGED file
    /\ pc[t] = "close"
    /\ opened' = IF err[t] = "nil" THEN FALSE ELSE opened
    /\ hist' = "closed"
    /\ ret' = [ret EXCEPT ![t] = err[t]]
    /\ pc' = [pc EXCEPT ![t] = "idle"]
    /\ UNCHANGED <<prototype, loader, saver, items, wowner, readers>>
    /\ UNCHANGED <<medium, op, err, arg, got, recordType, ncalls, lastSaved>>

\* Close after Save: mark the store closed, without the lock, and return
\* Save's result.
Close(t) ==
    /\ ~crashed
    /\ UNCHANGED file
    /\ pc[t] = "close"
    /\ opened' = FALSE
    /\ hist' = "closed"
    /\ ret' = [ret EXCEPT ![t] = err[t]]
    /\ pc' = [pc EXCEPT ![t] = "idle"]
    /\ UNCHANGED <<prototype, loader, saver, items, wowner, readers>>
    /\ UNCHANGED <<medium, op, err, arg, got, recordType, ncalls, lastSaved>>

(* ------------------------------ Clear ---------------------------------- *)
\* Clear under the exclusive lock: replace the collection by an empty one
\* and call Save, still holding the lock.
Clear(t) ==
    /\ ~crashed
    /\ UNCHANGED file
    /\ pc[t] = "clear"
    /\ items' = <<>>
    /\ pc' = [pc EXCEPT ![t] = "rlock"]
    /\ UNCHANGED <<prototype, loader, saver, opened, wowner, readers>>
    /\ UNCHANGED <<medium, op, err, arg, ret, history>>

(* --------------------------- specification ----------------------------- *)
\* The steps of a call in progress in goroutine t.
Step(t) ==
    \/ Lock(t)
    \/ LockGranted(t)
    \/ load(t)
    \/ Open(t)
    \/ Save(t)
    \/ SaverSave(t)
    \/ Close(t)
    \/ Clear(t)

Next ==
    \/ \E t \in Threads : OpenCall(t)
    \/ \E t \in Threads : SaveCall(t)
    \/ \E t \in Threads : CloseCall(t)
    \/ \E t \in Threads : ClearCall(t)
    \/ \E t \in Threads : Lock(t)
    \/ \E t \in Threads : LockGranted(t)
    \/ \E t \in Threads : load(t)
    \/ \E t \in Threads : Open(t)
    \/ \E t \in Threads : Save(t)
    \/ \E t \in Threads : SaverSave(t)
    \/ \E t \in Threads : Close(t)
    \/ \E t \in Threads : Clear(t)
    \/ \E proto \in Prototypes \cup {NilType} : NewEmptyMemoryPersistence(proto)
    \/ \E proto \in Prototypes \cup {NilType}, ld \in BOOLEAN, sv \in BOOLEAN :
          NewMemoryPersistence(proto, ld, sv)

Spec == Init /\ [][Next]_vars

\* The scheduler runs every goroutine that can take a step, and Loader and
\* Saver calls return.
FairSpec == Spec /\ \A t \in Threads : WF_vars(Step(t))

(* ---------------------- stores of an embedding struct ------------------ *)
\* A store as a struct of the package that embeds MemoryPersistence sets it
\* up: the record type in _prototype together with a loader, over a medium
\* that may hold items that do not convert.
LoadInit ==
    /\ medium \in Media \cup BadMedia
    /\ lastSaved = NoSave
    /\ recordType \in Prototypes
    /\ prototype = recordType
    /\ loader = TRUE
    /\ saver \in BOOLEAN
    /\ items \in Collections
    /\ opened = FALSE
    /\ wowner = 0
    /\ readers = {}
    /\ op = [t \in Threads |-> "none"]
    /\ pc = [t \in Threads |-> "idle"]
    /\ err = [t \in Threads |-> "nil"]
    /\ arg = [t \in Threads |-> <<>>]
    /\ ret = [t \in Threads |-> "none"]
    /\ got = [t \in Threads |-> "none"]
    /\ ncalls = 2
    /\ hist = "new"
    /\ kind = "memory"
    /\ persisterPath = ""
    /\ ioPath = ""
    /\ cfgPath = "none"
    /\ depth = 0

LoadSpec == LoadInit /\ [][Next]_vars

(* ------------------------- file-backed stores -------------------------- *)
\* Paths a JsonFilePersister can be configured with.
Paths == {"a.json", "b.json"}

\* A store whose loader and saver are a persister with the given path, and
\* whose _persister field is a copy of that persister.
WithPersister(k, path) ==
    /\ kind' = k
    /\ persisterPath' = path
    /\ ioPath' = path
    /\ cfgPath' = "none"
    /\ depth' = 0

\* NewFilePersistence(prototype, persister): _persister gets a copy of the
\* parameter, the embedded MemoryPersistence gets the address of the
\* parameter as loader and saver.  NewMemoryPersistence returns nil for a nil
\* prototype, and the dereference of its result panics.
NewFilePersistence(proto, path) ==
    /\ Restartable
    /\ IF proto = NilType
       THEN Fresh(NilType, FALSE, FALSE, NilType, <<>>, 0) /\ WithPersister("panic", path)
       ELSE Fresh(NilType, TRUE, TRUE, proto, <<>>, 0) /\ WithPersister("file", path)
    /\ UNCHANGED <<medium, lastSaved>>

\* NewIdentifiableFilePersistence(prototype, persister): the same wiring around
\* NewIdentifiableMemoryPersistence, whose result is dereferenced too; for a
\* nil prototype it returns nil (panic) or a store without a record type.
NewIdentifiableFilePersistence(proto, path) ==
    /\ Restartable
    /\ IF proto = NilType
       THEN \E k \in {"panic", "idfile"} :
               /\ Fresh(NilType, k = "idfile", k = "idfile", NilType, <<>>, 0)
               /\ WithPersister(k, path)
       ELSE Fresh(NilType, TRUE, TRUE, proto, <<>>, 0) /\ WithPersister("idfile", path)
    /\ UNCHANGED <<medium, lastSaved>>

\* FilePersistence.Configure(conf) with path P in conf: the _persister copy
\* takes the path; the persister used as loader and saver is another object.
FilePersistence_Configure(P) ==
    /\ ~crashed
    /\ kind = "file"
    /\ persisterPath' = P
    /\ cfgPath' = P
    /\ UNCHANGED <<kind, ioPath, depth>>
    /\ UNCHANGED <<store, medium, thread, history>>

\* IdentifiableFilePersistence.Configure(config) is entered by a client.
IdentifiableFilePersistence_Configure(P) ==
    /\ ~crashed
    /\ kind = "idfile"
    /\ depth = 0
    /\ depth' = 1
    /\ cfgPath' = P
    /\ UNCHANGED <<kind, persisterPath, ioPath>>
    /\ UNCHANGED <<store, medium, thread, history>>

\* Its first statement, c.Configure(config), is a call of the same method:
\* one more activation while the stack has room, a fatal stack overflow when
\* it has none.  The forward to _persister is never reached.
ConfigureSelfCall ==
    /\ ~crashed
    /\ kind = "idfile"
    /\ depth >= 1
    /\ IF depth < MaxStack
       THEN depth' = depth + 1 /\ kind' = kind
       ELSE depth' = depth /\ kind' = "fatal"
    /\ UNCHANGED <<persisterPath, ioPath, cfgPath>>
    /\ UNCHANGED <<store, medium, thread, history>>

FileNext ==
    \/ Next
    \/ \E proto \in Prototypes \cup {NilType}, path \in Paths : NewFilePersistence(proto, path)
    \/ \E proto \in Prototypes \cup {NilType}, path \in Paths :
          NewIdentifiableFilePersistence(proto, path)
    \/ \E P \in Paths : FilePersistence_Configure(P)
    \/ \E P \in Paths : IdentifiableFilePersistence_Configure(P)
    \/ ConfigureSelfCall

\* The three kinds of store, constructed and configured by clients.
FileSpec == Init /\ [][FileNext]_vars

(* --------------------------- clients without Clear --------------------- *)
NoClearStep(t) ==
    \/ Lock(t)
    \/ LockGranted(t)
    \/ load(t)
    \/ Open(t)
    \/ Save(t)
    \/ SaverSave(t)
    \/ Close(t)

NoClearNext ==
    \E t \in Threads :
        \/ OpenCall(t)
        \/ SaveCall(t)
        \/ CloseCall(t)
        \/ NoClearStep(t)

\* A store with a loader and a saver, no call in progress, no record in the
\* collection, over any medium.
NoClearInit ==
    /\ medium \in Media
    /\ lastSaved = NoSave
    /\ recordType \in Prototypes
    /\ prototype = NilType
    /\ loader = TRUE
    /\ saver = TRUE
    /\ items = <<>>
    /\ opened = FALSE
    /\ wowner = 0
    /\ readers = {}
    /\ op = [t \in Threads |-> "none"]
    /\ pc = [t \in Threads |-> "idle"]
    /\ err = [t \in Threads |-> "nil"]
    /\ arg = [t \in Threads |-> <<>>]
    /\ ret = [t \in Threads |-> "none"]
    /\ got = [t \in Threads |-> "none"]
    /\ ncalls = 2
    /\ hist = "new"
    /\ kind = "memory"
    /\ persisterPath = ""
    /\ ioPath = ""
    /\ cfgPath = "none"
    /\ depth = 0

\* Clients that call Open, Save and Close only.  The mutex does not starve a
\* goroutine: one that can take the lock again and again does take it; and
\* Loader and Saver calls return.
NoClearSpec ==
    NoClearInit /\ [][NoClearNext]_vars /\ \A t \in Threads : SF_vars(NoClearStep(t))

(* ------------------------------ claims --------------------------------- *)
\* The call of goroutine t is over: it returned, or the process is gone.
Over(t) == pc[t] = "idle" \/ crashed

\* C1: every call to Clear eventually returns to its caller; it never blocks
\* forever on the store's own reader/writer lock.
C1_ClearReturns ==
    \A t \in Threads : (op[t] = "Clear" /\ pc[t] # "idle") ~> Over(t)

\* C2: Clear is idempotent: from any collection, every Clear on a store
\* whose saver is absent ends with an empty collection and returns no
\* error, the first one and the one after it alike.
C2_ClearIdempotent ==
    \A t \in Threads :
        (op[t] = "Clear" /\ pc[t] = "lock" /\ ~saver)
            ~> (crashed \/ op[t] # "Clear"
                \/ (pc[t] = "idle" /\ ret[t] = "nil" /\ items = <<>>))

\* C3: when the Loader returns a sequence and no error, Open returns no
\* error, the collection is the loaded sequence, item by item in the same
\* order, each materialized as the configured record type, and the store
\* is open.
C3_OpenLoadsItems ==
    [][\A t \in Threads :
          (/\ op[t] = "Open"
           /\ pc[t] \in {"load", "opened"}
           /\ pc'[t] \in {"idle", "panicked"}
           /\ got'[t] = "items")
          => (/\ ret'[t] = "nil"
              /\ items' = MaterializeAll(medium.data, recordType)
              /\ opened')]_vars

\* C4: when the Loader returns an error, load leaves the collection as it
\* was and Open returns that error without marking the store open.
C4_LoadErrorKeepsState ==
    [][\A t \in Threads :
          /\ (op[t] = "Open" /\ pc[t] = "load" /\ got'[t] = "error")
             => (/\ items' = items
                 /\ opened' = opened
                 /\ err'[t] = "error"
                 /\ pc'[t] = "opened")
          /\ (op[t] = "Open" /\ pc[t] = "opened" /\ got[t] = "error" /\ pc'[t] = "idle")
             => (/\ ret'[t] = "error"
                 /\ items' = items
                 /\ opened' = opened)]_vars

C4_Witness ==
    \E t \in Threads :
        /\ op[t] = "Open" /\ pc[t] = "idle" /\ ret[t] = "error" /\ got[t] = "error"
        /\ items # <<>>
        /\ ~opened

\* C5: Open without a Loader, or with a Loader returning neither items nor
\* an error, returns no error, marks the store open and leaves the
\* collection unchanged; as the first call on a new store it ends with an
\* empty collection.
C5_NothingToLoad ==
    [][\A t \in Threads :
          /\ (op[t] = "Open" /\ pc[t] = "load" /\ got'[t] \in {"noloader", "nothing"})
             => (/\ items' = items
                 /\ err'[t] = "nil"
                 /\ pc'[t] = "opened")
          /\ (/\ op[t] = "Open" /\ pc[t] = "opened" /\ pc'[t] = "idle"
              /\ got[t] \in {"noloader", "nothing"})
             => (/\ ret'[t] = "nil"
                 /\ opened'
                 /\ items' = items
                 /\ (ncalls = 1 => items' = <<>>))]_vars

C5_Witness ==
    \E t \in Threads :
        /\ op[t] = "Open" /\ pc[t] = "idle" /\ ret[t] = "nil" /\ got[t] = "nothing"
        /\ ncalls = 1
        /\ items = <<>>
        /\ opened

\* C6: Close leaves the store marked closed when it returns, whether Save
\* succeeded or failed, returns exactly what Save returned, and no step of
\* Close changes the collection.
C6_CloseAlwaysCloses ==
    [][\A t \in Threads :
          /\ (op[t] = "Close" /\ pc'[t] # pc[t]) => items' = items
          /\ (op[t] = "Close" /\ pc[t] = "close" /\ pc'[t] = "idle")
             => (~opened' /\ ret'[t] = err[t])]_vars

C6_Witness ==
    \E t \in Threads :
        /\ op[t] = "Close" /\ pc[t] = "idle" /\ ret[t] = "error"
        /\ hist = "closed"
        /\ ~opened
        /\ items # <<>>

\* C7: the store reports open only if an Open whose load succeeded has taken
\* effect and no Close has completed since; a new store reports closed.
C7_OpenOnlyBetweenOpenAndClose ==
    /\ opened => hist = "open"
    /\ ncalls = 0 => ~opened

C7_Witness ==
    /\ opened
    /\ hist = "open"
    /\ \E t \in Threads : op[t] = "Close" /\ pc[t] = "idle" /\ ret[t] # "none"

\* C8: while a goroutine is inside Saver.Save, the sequence it handed over
\* is the whole current collection, and it holds the lock shared.
C8_SaverGetsCurrentCollection ==
    \A t \in Threads :
        pc[t] = "insaver" => (arg[t] = items /\ t \in readers)

C8_Witness ==
    \E t \in Threads, u \in Threads :
        /\ pc[t] = "insaver" /\ arg[t] # <<>>
        /\ pc[u] = "lockwait"

\* C9: without a saver, Save returns no error, never enters Saver.Save and
\* changes neither the collection, the open flag nor the medium; Close then
\* returns no error.
C9_NoSaverIsNoOp ==
    [][\A t \in Threads :
          /\ (~saver /\ pc[t] = "rlock" /\ pc'[t] # pc[t])
             => (/\ pc'[t] # "insaver"
                 /\ err'[t] = "nil"
                 /\ items' = items
                 /\ opened' = opened
                 /\ medium' = medium
                 /\ (op[t] = "Save" => (pc'[t] = "idle" /\ ret'[t] = "nil")))
          /\ (~saver /\ op[t] = "Close" /\ pc[t] = "close" /\ pc'[t] = "idle")
             => ret'[t] = "nil"]_vars

C9_Witness ==
    \E t \in Threads :
        /\ ~saver
        /\ op[t] = "Close" /\ pc[t] = "idle" /\ ret[t] = "nil"
        /\ items # <<>>

\* C10: after a successful Save, the first Open on a new store whose Loader
\* reads the same medium ends with the saved collection, same records in
\* the same order, and the store open.
C10_RoundTrip ==
    [][\A t \in Threads :
          (/\ op[t] = "Open"
           /\ pc[t] \in {"load", "opened"}
           /\ pc'[t] \in {"idle", "panicked"}
           /\ got'[t] = "items"
           /\ ncalls = 1
           /\ lastSaved.any)
          => (/\ items' = lastSaved.data
              /\ opened'
              /\ ret'[t] = "nil")]_vars

(* ------------------------------ C11 ------------------------------------ *)
\* Thread u holds the lock exclusively: it is in Open's load-and-replace or
\* in Clear's replace (up to Clear's call of Save).
Replacing(u) == wowner = u /\ pc[u] \in {"load", "opened", "clear", "rlock"}

\* C11: while a thread is inside Saver.Save, no other thread is replacing the
\* collection (Open's load-and-replace, Clear's replace).
C11_SaverNotDuringReplace ==
    \A t \in Threads : pc[t] = "insaver" => \A u \in Threads \ {t} : ~Replacing(u)

\* Two Save calls are inside Saver.Save at the same time.
C11_Witness ==
    \E t \in Threads, u \in Threads :
        t # u /\ pc[t] = "insaver" /\ pc[u] = "insaver" /\ op[t] = "Save" /\ op[u] = "Save"

(* ------------------------------ C14 ------------------------------------ *)
\* C14: Open does not take effect (replace the collection, mark the store
\* open) between Close's Save and Close's marking the store closed.
C14_OpenNotInsideClose ==
    [][(\E u \in Threads : pc[u] = "close")
         => \A t \in Threads : ~(pc[t] \in {"load", "opened"} /\ pc'[t] # pc[t])]_vars

(* ------------------------------ C18 ------------------------------------ *)
\* C18: whenever no call is in progress the lock is held by no one.
C18_LockFreeWhenQuiet ==
    (\A t \in Threads : pc[t] \in {"idle", "panicked"}) => (wowner = 0 /\ readers = {})

\* Every return path was taken: Open failed, Save returned the saver's error.
C18_Witness ==
    /\ \A t \in Threads : pc[t] = "idle"
    /\ \E t \in Threads, u \in Threads :
          /\ op[t] = "Open" /\ ret[t] = "error"
          /\ op[u] = "Save" /\ ret[u] = "error" /\ saver

(* ------------------------------ C19 ------------------------------------ *)
\* C19: no step of a Save call changes the collection or the open flag,
\* whatever its outcome.
C19_SaveChangesNothing ==
    [][\A t \in Threads :
         (op[t] = "Save" /\ pc[t] # "idle" /\ pc'[t] # pc[t])
           => (items' = items /\ opened' = opened)]_vars

\* A Save call returned the saver's error on an open store with records.
C19_Witness ==
    \E t \in Threads :
        op[t] = "Save" /\ pc[t] = "idle" /\ ret[t] = "error" /\ items # <<>> /\ opened

(* ------------------------------ C12 ------------------------------------ *)
\* C12: once a file-backed store was configured with path P, every Loader
\* and Saver call of Open and Save goes through a persister configured
\* with P.
C12_ConfiguredPersisterIsUsed ==
    [][\A t \in Threads :
         (/\ kind = "file"
          /\ cfgPath # "none"
          /\ pc[t] \in {"load", "insaver"}
          /\ pc'[t] # pc[t])
           => ioPath = cfgPath]_vars

(* ------------------------------ C13 ------------------------------------ *)
\* C13: Configure on the identifiable file-backed store does not invoke
\* itself, and so does not exhaust the stack.
C13_ConfigureNoSelfCall == depth <= 1 /\ kind # "fatal"

(* ------------------------------ C16 ------------------------------------ *)
\* C16: no constructor terminates the process on a nil prototype, and a store
\* just constructed has an empty collection and is closed.
C16_ConstructorsNeverPanic ==
    /\ kind # "panic"
    /\ (ncalls = 0 /\ kind \in {"memory", "file", "idfile"}) => (items = <<>> /\ ~opened)

NoReentry ==
    \A t \in Threads : pc[t] \in {"lock", "rlock"} => (wowner # t /\ t \notin readers)

====
